---- MODULE Spec2Model ----
(***************************************************************************)
(* A model of the secret resolution core of the repository:                *)
(*   crates/settings_content/src/secret.rs   SecretReference, EnvValue     *)
(*   crates/project/src/secret_resolver.rs   SecretResolver and the        *)
(*                                           provider dispatch             *)
(* Threads share one SecretResolver.  Each thread runs one operation at a  *)
(* time: pre_resolve (an async loop that suspends on the provider          *)
(* process), resolve_env_map or collect_secrets.  The two caches sit       *)
(* behind two mutexes, which are modelled explicitly.                      *)
(*                                                                         *)
(* Beside it, two units that stand on their own:                           *)
(*   crates/virtual_document/src/virtual_document.rs                       *)
(*                                 the handler registry of                 *)
(*                                 VirtualDocumentStore                    *)
(*   crates/markdown/src/table_format.rs     format_markdown_table         *)
(***************************************************************************)
EXTENDS Integers, Sequences, FiniteSets, TLC

\* ------------------------------------------------------------------ bounds
\* Longest reference list handed to pre_resolve.
MaxLen == 2
\* Longest standard output / standard error captured from a provider process.
MaxOut == 2

\* ------------------------------------------------------------- generalities
Threads == {"t1", "t2"}
NoThread == "none"

Range(s) == {s[i] : i \in DOMAIN s}

SeqsUpTo(S, n) == UNION {[1..k -> S] : k \in 0..n}

\* HashMap::insert: the entry for k is added or replaced.
MapInsert(m, k, v) == [x \in (DOMAIN m) \cup {k} |-> IF x = k THEN v ELSE m[x]]

EmptyMap == [x \in {} |-> <<>>]

\* Result<T>: Ok(value) or Err(error).  An anyhow error is its chain of
\* messages, outermost context first.
Ok(v) == [ok |-> TRUE, value |-> v, err |-> <<>>]

Err(chain) == [ok |-> FALSE, value |-> <<>>, err |-> chain]

\* anyhow::bail!(msg)
Bail(msg) == Err(<<msg>>)

\* Context::with_context / Context::context: wraps an error in one more message.
WithContext(res, msg) == IF res.ok THEN res ELSE Err(<<msg>> \o res.err)

\* The alternate Display of an anyhow error: the message followed by the
\* messages of its causes.
DisplayMessageWithCauses(chain) == chain

\* Error::to_string(): Display of an anyhow error prints the outermost message only.
DisplayMessage(chain) == chain[1]

\* --------------------------------------------------------------- strings
\* A string is a sequence of characters; process output is a sequence of
\* bytes.  "xFF" is a byte that is not valid UTF-8, "uFFFD" the replacement
\* character.
Whitespace == {" ", "U+3000"}

Bytes == {"k", " ", "xFF"}

ByteStrings == SeqsUpTo(Bytes, MaxOut)

RECURSIVE TrimStart(_)
TrimStart(s) ==
    IF s # <<>> /\ Head(s) \in Whitespace THEN TrimStart(Tail(s)) ELSE s

RECURSIVE TrimEnd(_)
TrimEnd(s) ==
    IF s # <<>> /\ s[Len(s)] \in Whitespace
    THEN TrimEnd(SubSeq(s, 1, Len(s) - 1))
    ELSE s

\* Trim that leaves trailing whitespace in place.
TrimStartOnly(s) == TrimStart(s)

\* str::trim
Trim(s) == TrimEnd(TrimStart(s))

\* String::from_utf8
FromUtf8(bytes) ==
    IF \E i \in DOMAIN bytes : bytes[i] = "xFF"
    THEN Bail(<<"invalid utf-8 sequence">>)
    ELSE Ok(bytes)

\* String::from_utf8_lossy
FromUtf8Lossy(bytes) ==
    [i \in DOMAIN bytes |-> IF bytes[i] = "xFF" THEN "uFFFD" ELSE bytes[i]]

\* [String]::join(sep) over already formatted pieces
RECURSIVE Join(_, _)
Join(parts, sep) ==
    IF parts = <<>> THEN <<>>
    ELSE IF Len(parts) = 1 THEN parts[1]
    ELSE parts[1] \o <<sep>> \o Join(Tail(parts), sep)

\* ------------------------------------------------------------ data model
\* SecretReference { provider, reference }
SecretReference(p, r) == [provider |-> p, reference |-> r]

RefOp == SecretReference("1password", "op://v/i/f")

RefPass == SecretReference("pass", "mail/imap")

RefVault == SecretReference("vault", "kv/x")

SecretRefs == {RefOp, RefPass, RefVault}

\* EnvValue::Plain(String)
Plain(v) == [variant |-> "Plain", value |-> v]

\* EnvValue::Secret { secret }
Secret(s) == [variant |-> "Secret", secret |-> s]

\* Option<T>
Some(x) == [some |-> TRUE, value |-> x]

None == [some |-> FALSE]

\* EnvValue::as_plain
AsPlain(v) == IF v.variant = "Plain" THEN Some(v.value) ELSE None

\* EnvValue::as_secret
AsSecret(v) == IF v.variant = "Secret" THEN Some(v.secret) ELSE None

\* into_plain_string that hands out the reference of a secret as its value.
IntoPlainStringCoercing(v) ==
    IF v.variant = "Plain" THEN Ok(v.value) ELSE Ok(v.secret.reference)

\* EnvValue::into_plain_string
IntoPlainString(v) ==
    IF v.variant = "Plain"
    THEN Ok(v.value)
    ELSE Bail(<<"unresolved secret reference (provider: {}, reference: {})",
                v.secret.provider, v.secret.reference>>)

\* ------------------------------------------------------ provider dispatch
PassCommand(secret, win) ==
    IF win
    THEN Bail(<<"secret provider 'pass' is not supported on Windows">>)
    ELSE Ok([program |-> "pass", args |-> <<"show", secret.reference>>])

ShellCommand(command, win) ==
    IF win
    THEN [program |-> "pwsh",
          args |-> <<"-NoLogo", "-NoProfile", "-NonInteractive", "-Command", command>>]
    ELSE [program |-> "sh", args |-> <<"-c", command>>]

\* The provider names whose spelling differs from a supported one in case only.
Lowercase(provider) ==
    CASE provider = "1Password" -> "1password"
      [] provider = "PASS" -> "pass"
      [] provider = "Command" -> "command"
      [] OTHER -> provider

\* provider_command matching the provider name without regard to case.
ProviderCommandAnyCase(secret, win) ==
    CASE Lowercase(secret.provider) = "1password" ->
            Ok([program |-> "op", args |-> <<"read", secret.reference>>])
      [] Lowercase(secret.provider) = "pass" -> PassCommand(secret, win)
      [] Lowercase(secret.provider) = "command" -> Ok(ShellCommand(secret.reference, win))
      [] OTHER -> Bail(<<"unsupported secret provider: '{}'", secret.provider>>)

ProviderCommand(secret, win) ==
    CASE secret.provider = "1password" ->
            Ok([program |-> "op", args |-> <<"read", secret.reference>>])
      [] secret.provider = "pass" -> PassCommand(secret, win)
      [] secret.provider = "command" -> Ok(ShellCommand(secret.reference, win))
      [] OTHER -> Bail(<<"unsupported secret provider: '{}'", secret.provider>>)

\* ------------------------------------------------------- provider process
\* What smol::process::Command::output().await yields: an I/O error, or the
\* exit status with the captured standard output and standard error.
ProcessOutputs ==
    {[io |-> FALSE, code |-> 0, stdout |-> s, stderr |-> <<>>] : s \in ByteStrings}
    \cup {[io |-> FALSE, code |-> 1, stdout |-> <<>>, stderr |-> e] : e \in ByteStrings}
    \cup {[io |-> TRUE, code |-> 0, stdout |-> <<>>, stderr |-> <<>>]}

\* resolve_secret after the process has ended with `out`.
ResolveSecretOutput(secret, cmd, out) ==
    IF out.io
    THEN WithContext(Bail(<<"os error">>),
            <<"failed to execute secret provider command: {} {}",
              cmd.program, Join([i \in DOMAIN cmd.args |-> <<cmd.args[i]>>], " ")>>)
    ELSE IF out.code # 0
    THEN Bail(<<"secret provider '{}' failed (exit code {:?}): {}",
                secret.provider, out.code, Trim(FromUtf8Lossy(out.stderr))>>)
    ELSE LET decoded == WithContext(FromUtf8(out.stdout),
                            <<"secret provider output is not valid UTF-8">>)
         IN  IF decoded.ok THEN Ok(Trim(decoded.value)) ELSE decoded

\* The context pre_resolve puts on a failed resolve_secret.
ResolveContext(secret) ==
    <<"failed to resolve secret (provider: {}, reference: {})",
      secret.provider, secret.reference>>

\* ------------------------------------------------------------------ state
VARIABLES
    windows,        \* cfg(windows): the platform the build targets
    cache,          \* SecretResolver.cache: SecretReference -> String
    failures,       \* SecretResolver.failures: SecretReference -> message
    cacheLock,      \* the thread holding the cache mutex, or NoThread
    failuresLock,   \* the thread holding the failures mutex, or NoThread
    pc,             \* each thread's position
    secrets,        \* pre_resolve: the `secrets` argument
    idx,            \* pre_resolve: position of the loop in `secrets`
    errors,         \* pre_resolve: the `errors` vector
    inflight,       \* provider processes running: [thread, pos, secret]
    env,            \* resolve_env_map / collect_secrets: the `env` argument
    order,          \* the order in which the HashMap iterator yielded env's keys
    iter,           \* resolve_env_map: how far env.iter() has come in `order`
    collected,      \* resolve_env_map: the entries collect() has taken so far
    covered,        \* history: when the thread's resolve_env_map call began, a
                    \*          pre_resolve call had returned Ok whose list held
                    \*          every Secret reference of env
    ret,            \* what each thread's last operation returned
    invocations,    \* history: calls of resolve_secret per reference
    resolved,       \* history: reference -> the standard output of its last
                    \*          successful invocation
    rejected,       \* history: reference -> how its last failed invocation failed
    failLog,        \* history: references that failed in the thread's call, in order
    again,          \* history: the thread's pre_resolve call was handed the list
                    \*          of the pre_resolve call it made just before
    call,           \* the function or method called last, with its arguments
    result,         \* what that call returned
    handlers,       \* VirtualDocumentStore.handlers: scheme -> config
    latest          \* history: scheme -> the config of the last register_handler
                    \*          call for it that returned Ok

caches == <<cache, failures>>

locks == <<cacheLock, failuresLock>>

preLocals == <<secrets, idx, errors, failLog, again>>

iterLocals == <<iter, collected>>

envLocals == <<env, order, covered, iterLocals>>

history == <<invocations, resolved, rejected>>

resolver == <<windows, caches, locks, pc, preLocals, inflight, envLocals, ret, history>>

library == <<call, result, handlers, latest>>

vars == <<resolver, library>>

NoCall == [fn |-> "none"]

NoRet == [op |-> "none", ok |-> TRUE, value |-> <<>>, err |-> <<>>]

Returned(name, res) == [op |-> name, ok |-> res.ok, value |-> res.value, err |-> res.err]

\* SecretResolver::new on either platform; no thread has called anything.
ResolverInit ==
    /\ windows \in BOOLEAN
    /\ cache = EmptyMap
    /\ failures = EmptyMap
    /\ cacheLock = NoThread
    /\ failuresLock = NoThread
    /\ pc = [t \in Threads |-> "idle"]
    /\ secrets = [t \in Threads |-> <<>>]
    /\ idx = [t \in Threads |-> 0]
    /\ errors = [t \in Threads |-> <<>>]
    /\ inflight = {}
    /\ env = [t \in Threads |-> EmptyMap]
    /\ order = [t \in Threads |-> <<>>]
    /\ covered = [t \in Threads |-> FALSE]
    /\ iter = [t \in Threads |-> 0]
    /\ collected = [t \in Threads |-> EmptyMap]
    /\ ret = [t \in Threads |-> NoRet]
    /\ invocations = [r \in SecretRefs |-> 0]
    /\ resolved = EmptyMap
    /\ rejected = EmptyMap
    /\ failLog = [t \in Threads |-> <<>>]
    /\ again = [t \in Threads |-> FALSE]

\* A new resolver and a new VirtualDocumentStore; nothing has been called.
Init ==
    /\ ResolverInit
    /\ call = NoCall
    /\ result = <<>>
    /\ handlers = EmptyMap
    /\ latest = EmptyMap

\* A thread starts an operation when it is running none.
CanCall(t) == pc[t] \in {"idle", "done"}

\* ------------------------------------------------------------ pre_resolve
\* Entry: `let mut errors = Vec::new();` and the loop starts.
PreResolve(t, list) ==
    /\ CanCall(t)
    /\ pc' = [pc EXCEPT ![t] = "loop"]
    /\ secrets' = [secrets EXCEPT ![t] = list]
    /\ idx' = [idx EXCEPT ![t] = 1]
    /\ errors' = [errors EXCEPT ![t] = <<>>]
    /\ failLog' = [failLog EXCEPT ![t] = <<>>]
    /\ again' = [again EXCEPT ![t] =
            pc[t] = "done" /\ ret[t].op = "pre_resolve" /\ secrets[t] = list]
    /\ env' = [env EXCEPT ![t] = EmptyMap]
    /\ order' = [order EXCEPT ![t] = <<>>]
    /\ covered' = [covered EXCEPT ![t] = FALSE]
    /\ ret' = [ret EXCEPT ![t] = NoRet]
    /\ UNCHANGED <<library, windows, caches, locks, inflight, iterLocals, history>>

\* CheckCache with the success cache not consulted: every reference goes on
\* to the failure check.
CheckCacheMiss(t) ==
    /\ pc[t] = "loop"
    /\ idx[t] <= Len(secrets[t])
    /\ cacheLock = NoThread
    /\ cacheLock' = t
    /\ pc' = [pc EXCEPT ![t] = "checkFailures"]
    /\ UNCHANGED <<library, windows, caches, failuresLock, preLocals, inflight, envLocals, ret,
                   history>>

\* `self.cache.lock().contains_key(secret) || ...`: the guard of the first
\* operand lives to the end of the condition, so on a miss the cache mutex
\* stays held while the second operand is evaluated.
CheckCache(t) ==
    /\ pc[t] = "loop"
    /\ idx[t] <= Len(secrets[t])
    /\ cacheLock = NoThread
    /\ IF secrets[t][idx[t]] \in DOMAIN cache
       THEN /\ idx' = [idx EXCEPT ![t] = @ + 1]
            /\ UNCHANGED <<pc, cacheLock>>
       ELSE /\ cacheLock' = t
            /\ pc' = [pc EXCEPT ![t] = "checkFailures"]
            /\ UNCHANGED idx
    /\ UNCHANGED <<library, windows, caches, failuresLock, secrets, errors, failLog, again,
                   inflight, envLocals, ret, history>>

\* CheckFailures with the failure cache not consulted: a failed reference is
\* resolved again by every call.
CheckFailuresRetry(t) ==
    /\ pc[t] = "checkFailures"
    /\ failuresLock = NoThread
    /\ cacheLock' = NoThread
    /\ pc' = [pc EXCEPT ![t] = "resolve"]
    /\ UNCHANGED <<library, windows, caches, failuresLock, preLocals, inflight, envLocals, ret,
                   history>>

\* CheckFailures with the cache guard bound to a variable of the loop body:
\* it is still held when the provider is awaited.
CheckFailuresKeepsGuard(t) ==
    /\ pc[t] = "checkFailures"
    /\ failuresLock = NoThread
    /\ IF secrets[t][idx[t]] \in DOMAIN failures
       THEN /\ idx' = [idx EXCEPT ![t] = @ + 1]
            /\ pc' = [pc EXCEPT ![t] = "loop"]
            /\ cacheLock' = NoThread
       ELSE /\ pc' = [pc EXCEPT ![t] = "resolve"]
            /\ UNCHANGED <<idx, cacheLock>>
    /\ UNCHANGED <<library, windows, caches, failuresLock, secrets, errors, failLog, again,
                   inflight, envLocals, ret, history>>

\* CheckFailures with the failures guard bound to a variable that outlives
\* the check: the call keeps the failures mutex while it goes on.
CheckFailuresGuardOutlives(t) ==
    /\ pc[t] = "checkFailures"
    /\ failuresLock \in {NoThread, t}
    /\ failuresLock' = t
    /\ cacheLock' = NoThread
    /\ IF secrets[t][idx[t]] \in DOMAIN failures
       THEN /\ idx' = [idx EXCEPT ![t] = @ + 1]
            /\ pc' = [pc EXCEPT ![t] = "loop"]
       ELSE /\ pc' = [pc EXCEPT ![t] = "resolve"]
            /\ UNCHANGED idx
    /\ UNCHANGED <<library, windows, caches, secrets, errors, failLog, again,
                   inflight, envLocals, ret, history>>

\* `... || self.failures.lock().contains_key(secret)`, then both guards drop.
CheckFailures(t) ==
    /\ pc[t] = "checkFailures"
    /\ failuresLock = NoThread
    /\ cacheLock' = NoThread
    /\ IF secrets[t][idx[t]] \in DOMAIN failures
       THEN /\ idx' = [idx EXCEPT ![t] = @ + 1]
            /\ pc' = [pc EXCEPT ![t] = "loop"]
       ELSE /\ pc' = [pc EXCEPT ![t] = "resolve"]
            /\ UNCHANGED idx
    /\ UNCHANGED <<library, windows, caches, failuresLock, secrets, errors, failLog, again,
                   inflight, envLocals, ret, history>>

\* StoreValue with a value dropped once the call has seen a failure.
StoreValueUnlessFailed(t, secret, value) ==
    /\ cacheLock = NoThread
    /\ cache' = IF errors[t] = <<>> THEN MapInsert(cache, secret, value) ELSE cache
    /\ UNCHANGED <<failures, errors, failLog>>

\* StoreValue that drops the failure recorded for the reference it stores.
StoreValueClearsFailure(t, secret, value) ==
    /\ cacheLock = NoThread
    /\ cache' = MapInsert(cache, secret, value)
    /\ failures' = [r \in DOMAIN failures \ {secret} |-> failures[r]]
    /\ UNCHANGED <<errors, failLog>>

\* StoreValue that inserts into a copy of the map: the value never reaches
\* the cache the callers share.
StoreValueNotKept(t, secret, value) ==
    /\ cacheLock = NoThread
    /\ UNCHANGED <<cache, failures, errors, failLog>>

\* Ok(value) => self.cache.lock().insert(secret.clone(), value)
StoreValue(t, secret, value) ==
    /\ cacheLock = NoThread
    /\ cache' = MapInsert(cache, secret, value)
    /\ UNCHANGED <<failures, errors, failLog>>

\* StoreFailure with the message put at the front of `errors`.
StoreFailurePrepend(t, secret, chain) ==
    /\ failuresLock = NoThread
    /\ failures' = MapInsert(failures, secret, DisplayMessage(chain))
    /\ errors' = [errors EXCEPT ![t] = <<DisplayMessage(chain)>> \o @]
    /\ failLog' = [failLog EXCEPT ![t] = Append(@, secret)]
    /\ UNCHANGED cache

\* StoreFailure without the failure cache: the message is reported and not
\* remembered.
StoreFailureNotCached(t, secret, chain) ==
    /\ failuresLock = NoThread
    /\ errors' = [errors EXCEPT ![t] = Append(@, DisplayMessage(chain))]
    /\ failLog' = [failLog EXCEPT ![t] = Append(@, secret)]
    /\ UNCHANGED <<cache, failures>>

\* Err(err) => failures.lock().insert(secret, message); errors.push(message)
StoreFailure(t, secret, chain) ==
    /\ failuresLock = NoThread
    /\ failures' = MapInsert(failures, secret, DisplayMessage(chain))
    /\ errors' = [errors EXCEPT ![t] = Append(@, DisplayMessage(chain))]
    /\ failLog' = [failLog EXCEPT ![t] = Append(@, secret)]
    /\ UNCHANGED cache

\* StoreResult with the error propagated by `?`: the first failure ends the
\* loop, and the references after it are not attempted.
StoreResultFailFast(t, secret, res) ==
    /\ LET r == WithContext(res, ResolveContext(secret))
       IN  IF r.ok
           THEN /\ StoreValue(t, secret, r.value)
                /\ idx' = [idx EXCEPT ![t] = @ + 1]
           ELSE /\ StoreFailure(t, secret, r.err)
                /\ idx' = [idx EXCEPT ![t] = Len(secrets[t]) + 1]
    /\ pc' = [pc EXCEPT ![t] = "loop"]

\* The match on resolve_secret(secret).await.with_context(..), and the loop
\* moves on to the next reference.
StoreResult(t, secret, res) ==
    /\ LET r == WithContext(res, ResolveContext(secret))
       IN  IF r.ok THEN StoreValue(t, secret, r.value)
           ELSE StoreFailure(t, secret, r.err)
    /\ idx' = [idx EXCEPT ![t] = @ + 1]
    /\ pc' = [pc EXCEPT ![t] = "loop"]

\* Spawn with the process left running and not awaited: the loop goes on to the
\* next reference at once.
SpawnDetached(t, secret) ==
    /\ inflight' = inflight \cup {[thread |-> t, pos |-> idx[t], secret |-> secret]}
    /\ pc' = [pc EXCEPT ![t] = "loop"]
    /\ idx' = [idx EXCEPT ![t] = @ + 1]

\* The process is spawned and the task suspends on `.output().await`.
Spawn(t, secret) ==
    /\ inflight' = inflight \cup {[thread |-> t, pos |-> idx[t], secret |-> secret]}
    /\ pc' = [pc EXCEPT ![t] = "await"]
    /\ UNCHANGED idx

\* resolve_secret, up to the await: provider_command(secret)? and the spawn.
\* A rejected dispatch returns the error without suspending.
ResolveSecret(t) ==
    /\ pc[t] = "resolve"
    /\ LET secret == secrets[t][idx[t]]
           cmd == ProviderCommand(secret, windows)
       IN  /\ invocations' = [invocations EXCEPT ![secret] = @ + 1]
           /\ IF cmd.ok
              THEN /\ Spawn(t, secret)
                   /\ UNCHANGED <<caches, errors, failLog, resolved, rejected>>
              ELSE /\ StoreResult(t, secret, cmd)
                   /\ rejected' = MapInsert(rejected, secret, "dispatch")
                   /\ UNCHANGED <<inflight, resolved>>
    /\ UNCHANGED <<library, windows, locks, secrets, again, envLocals, ret>>

\* History: how a provider process failed, as seen from outside resolve_secret.
FailureKind(out) ==
    IF out.io THEN "spawn"
    ELSE IF out.code # 0 THEN "exit status"
    ELSE "encoding"

\* History: the process ran, exited with status 0 and printed valid UTF-8.
Succeeded(out) ==
    ~out.io /\ out.code = 0 /\ \A i \in DOMAIN out.stdout : out.stdout[i] # "xFF"

\* The provider process ends with `out`; the task resumes after the await,
\* resolve_secret returns and the result is stored.
ProviderCompletes(t, out) ==
    /\ pc[t] = "await"
    /\ \E m \in inflight :
        /\ m.thread = t
        /\ LET cmd == ProviderCommand(m.secret, windows).value
           IN  StoreResult(t, m.secret, ResolveSecretOutput(m.secret, cmd, out))
        /\ IF Succeeded(out)
           THEN /\ resolved' = MapInsert(resolved, m.secret, out.stdout)
                /\ UNCHANGED rejected
           ELSE /\ rejected' = MapInsert(rejected, m.secret, FailureKind(out))
                /\ UNCHANGED resolved
        /\ inflight' = inflight \ {m}
    /\ UNCHANGED <<library, windows, locks, secrets, again, envLocals, ret, invocations>>

\* After the loop: Ok(()) or the aggregated error.
PreResolveResult(errs) ==
    IF errs = <<>>
    THEN Ok(<<>>)
    ELSE Bail(<<"failed to resolve {} secret(s): {}", Len(errs), Join(errs, "; ")>>)

PreResolveReturn(t) ==
    /\ pc[t] = "loop"
    /\ idx[t] > Len(secrets[t])
    /\ ret' = [ret EXCEPT ![t] = Returned("pre_resolve", PreResolveResult(errors[t]))]
    /\ pc' = [pc EXCEPT ![t] = "done"]
    /\ UNCHANGED <<library, windows, caches, locks, preLocals, inflight, envLocals, history>>

\* -------------------------------------------------------- resolve_env_map
\* ResolveEntry with one message for every reference missing from the success
\* cache, the one of a cached failure.
ResolveEntryOneMessage(key, value, c, f) ==
    IF value.variant = "Plain"
    THEN Ok(value)
    ELSE LET secret == value.secret
         IN  IF secret \in DOMAIN c
             THEN Ok(Plain(c[secret]))
             ELSE Bail(<<"failed to resolve secret for '{}' (provider: {}, reference: {}): {}",
                         key, secret.provider, secret.reference,
                         IF secret \in DOMAIN f THEN f[secret] ELSE <<>> >>)

\* ResolveEntry with the failure cache not consulted.
ResolveEntryForgetsFailure(key, value, c, f) ==
    IF value.variant = "Plain"
    THEN Ok(value)
    ELSE LET secret == value.secret
         IN  IF secret \in DOMAIN c
             THEN Ok(Plain(c[secret]))
             ELSE Bail(<<"secret not pre-resolved for '{}' (provider: {}, reference: {})",
                         key, secret.provider, secret.reference>>)

\* ResolveEntry with plain values trimmed like resolved ones.
ResolveEntryTrimsPlain(key, value, c, f) ==
    IF value.variant = "Plain"
    THEN Ok(Plain(Trim(value.value)))
    ELSE LET secret == value.secret
         IN  IF secret \in DOMAIN c
             THEN Ok(Plain(c[secret]))
             ELSE IF secret \in DOMAIN f
             THEN Bail(<<"failed to resolve secret for '{}' (provider: {}, reference: {}): {}",
                         key, secret.provider, secret.reference, f[secret]>>)
             ELSE Bail(<<"secret not pre-resolved for '{}' (provider: {}, reference: {})",
                         key, secret.provider, secret.reference>>)

\* The closure of the map: one entry of env rewritten against the caches.
ResolveEntry(key, value, c, f) ==
    IF value.variant = "Plain"
    THEN Ok(value)
    ELSE LET secret == value.secret
         IN  IF secret \in DOMAIN c
             THEN Ok(Plain(c[secret]))
             ELSE IF secret \in DOMAIN f
             THEN Bail(<<"failed to resolve secret for '{}' (provider: {}, reference: {}): {}",
                         key, secret.provider, secret.reference, f[secret]>>)
             ELSE Bail(<<"secret not pre-resolved for '{}' (provider: {}, reference: {})",
                         key, secret.provider, secret.reference>>)

\* CollectEntries that leaves an entry it cannot rewrite out of the map and
\* goes on.
RECURSIVE CollectEntriesLenient(_, _, _, _, _)
CollectEntriesLenient(e, keys, c, f, acc) ==
    IF keys = <<>>
    THEN Ok(acc)
    ELSE LET entry == ResolveEntry(Head(keys), e[Head(keys)], c, f)
         IN  IF entry.ok
             THEN CollectEntriesLenient(e, Tail(keys), c, f,
                                        MapInsert(acc, Head(keys), entry.value))
             ELSE CollectEntriesLenient(e, Tail(keys), c, f, acc)

\* env.iter().map(..).collect::<Result<HashMap<_, _>>>(): the entries are
\* rewritten in iteration order into acc, and the first Err ends the collect.
RECURSIVE CollectEntries(_, _, _, _, _)
CollectEntries(e, keys, c, f, acc) ==
    IF keys = <<>>
    THEN Ok(acc)
    ELSE LET entry == ResolveEntry(Head(keys), e[Head(keys)], c, f)
         IN  IF entry.ok
             THEN CollectEntries(e, Tail(keys), c, f,
                                 MapInsert(acc, Head(keys), entry.value))
             ELSE entry

ClearPreResolveLocals(t) ==
    /\ secrets' = [secrets EXCEPT ![t] = <<>>]
    /\ idx' = [idx EXCEPT ![t] = 0]
    /\ errors' = [errors EXCEPT ![t] = <<>>]
    /\ failLog' = [failLog EXCEPT ![t] = <<>>]
    /\ again' = [again EXCEPT ![t] = FALSE]

\* History: the last call of thread u was a pre_resolve that returned Ok, and
\* its list held the reference of every Secret entry of e.
ReturnedOkFor(u, e) ==
    /\ pc[u] = "done"
    /\ ret[u].op = "pre_resolve"
    /\ ret[u].ok
    /\ \A k \in DOMAIN e :
            e[k].variant = "Secret" => e[k].secret \in Range(secrets[u])

\* ResolveEnvMap with the cache guard a temporary: the mutex is locked and
\* released at once, and the rewrite goes on without it.
ResolveEnvMapDropsGuard(t, e) ==
    /\ CanCall(t)
    /\ cacheLock = NoThread
    /\ pc' = [pc EXCEPT ![t] = "lockFailures"]
    /\ env' = [env EXCEPT ![t] = e]
    /\ order' = [order EXCEPT ![t] = <<>>]
    /\ covered' = [covered EXCEPT ![t] = \E u \in Threads : ReturnedOkFor(u, e)]
    /\ ret' = [ret EXCEPT ![t] = NoRet]
    /\ ClearPreResolveLocals(t)
    /\ UNCHANGED <<library, windows, caches, locks, inflight, iterLocals, history>>

\* Entry and `let cache = self.cache.lock();`
ResolveEnvMap(t, e) ==
    /\ CanCall(t)
    /\ cacheLock = NoThread
    /\ cacheLock' = t
    /\ pc' = [pc EXCEPT ![t] = "lockFailures"]
    /\ env' = [env EXCEPT ![t] = e]
    /\ order' = [order EXCEPT ![t] = <<>>]
    /\ covered' = [covered EXCEPT ![t] = \E u \in Threads : ReturnedOkFor(u, e)]
    /\ ret' = [ret EXCEPT ![t] = NoRet]
    /\ ClearPreResolveLocals(t)
    /\ UNCHANGED <<library, windows, caches, failuresLock, inflight, iterLocals, history>>

\* `let failures = self.failures.lock();`
LockFailures(t) ==
    /\ pc[t] = "lockFailures"
    /\ failuresLock = NoThread
    /\ failuresLock' = t
    /\ pc' = [pc EXCEPT ![t] = "rewrite"]
    /\ UNCHANGED <<library, windows, caches, cacheLock, preLocals, inflight, envLocals, ret,
                   history>>

\* Rewrite that empties the failure cache on its way out, so that the next
\* pre_resolve tries the failed references again.
RewriteForgetsFailures(t, keys) ==
    /\ pc[t] = "rewrite"
    /\ order' = [order EXCEPT ![t] = keys]
    /\ ret' = [ret EXCEPT ![t] =
            Returned("resolve_env_map",
                     CollectEntries(env[t], keys, cache, failures, EmptyMap))]
    /\ failures' = EmptyMap
    /\ cacheLock' = NoThread
    /\ failuresLock' = NoThread
    /\ pc' = [pc EXCEPT ![t] = "done"]
    /\ UNCHANGED <<library, windows, cache, preLocals, inflight, env, covered, iterLocals,
                   history>>

\* The iteration over env in the order `keys`, the return, and both guards drop.
Rewrite(t, keys) ==
    /\ pc[t] = "rewrite"
    /\ order' = [order EXCEPT ![t] = keys]
    /\ ret' = [ret EXCEPT ![t] =
            Returned("resolve_env_map",
                     CollectEntries(env[t], keys, cache, failures, EmptyMap))]
    /\ cacheLock' = NoThread
    /\ failuresLock' = NoThread
    /\ pc' = [pc EXCEPT ![t] = "done"]
    /\ UNCHANGED <<library, windows, caches, preLocals, inflight, env, covered, iterLocals,
                   history>>

\* The rewrite, one lookup at a time.
\* `env.iter()`: the iterator is made; it will yield the keys in the order `keys`.
IterBegin(t, keys) ==
    /\ pc[t] = "rewrite"
    /\ order' = [order EXCEPT ![t] = keys]
    /\ iter' = [iter EXCEPT ![t] = 1]
    /\ collected' = [collected EXCEPT ![t] = EmptyMap]
    /\ pc' = [pc EXCEPT ![t] = "next"]
    /\ UNCHANGED <<library, windows, caches, locks, preLocals, inflight, env, covered, ret,
                   history>>

\* resolve_env_map returns res: the guards `failures` and `cache` drop.
RewriteReturn(t, res) ==
    /\ ret' = [ret EXCEPT ![t] = Returned("resolve_env_map", res)]
    /\ cacheLock' = IF cacheLock = t THEN NoThread ELSE cacheLock
    /\ failuresLock' = IF failuresLock = t THEN NoThread ELSE failuresLock
    /\ iter' = [iter EXCEPT ![t] = 0]
    /\ collected' = [collected EXCEPT ![t] = EmptyMap]
    /\ pc' = [pc EXCEPT ![t] = "done"]

\* The iterator yields its next entry and the closure runs up to
\* `cache.get(secret)`: a Plain value or a hit is collected; on a miss the
\* closure goes on to the failure cache.  When the iterator is exhausted,
\* collect() returns the map.
NextEntry(t) ==
    /\ pc[t] = "next"
    /\ IF iter[t] > Len(order[t])
       THEN RewriteReturn(t, Ok(collected[t]))
       ELSE LET key == order[t][iter[t]]
                value == env[t][key]
            IN  \/ /\ value.variant = "Plain"
                   /\ collected' = [collected EXCEPT ![t] = MapInsert(@, key, value)]
                   /\ iter' = [iter EXCEPT ![t] = @ + 1]
                   /\ UNCHANGED <<pc, ret, locks>>
                \/ /\ value.variant = "Secret"
                   /\ value.secret \in DOMAIN cache
                   /\ collected' = [collected EXCEPT ![t] =
                            MapInsert(@, key, Plain(cache[value.secret]))]
                   /\ iter' = [iter EXCEPT ![t] = @ + 1]
                   /\ UNCHANGED <<pc, ret, locks>>
                \/ /\ value.variant = "Secret"
                   /\ value.secret \notin DOMAIN cache
                   /\ pc' = [pc EXCEPT ![t] = "missed"]
                   /\ UNCHANGED <<iterLocals, ret, locks>>
    /\ UNCHANGED <<library, windows, caches, preLocals, inflight, env, order, covered,
                   history>>

\* `failures.get(secret)` after the miss, and the bail! of either branch: the
\* first Err ends collect().
GetFailure(t) ==
    /\ pc[t] = "missed"
    /\ LET key == order[t][iter[t]]
           secret == env[t][key].secret
       IN  RewriteReturn(t,
                IF secret \in DOMAIN failures
                THEN Bail(<<"failed to resolve secret for '{}' (provider: {}, reference: {}): {}",
                            key, secret.provider, secret.reference, failures[secret]>>)
                ELSE Bail(<<"secret not pre-resolved for '{}' (provider: {}, reference: {})",
                            key, secret.provider, secret.reference>>))
    /\ UNCHANGED <<library, windows, caches, preLocals, inflight, env, order, covered,
                   history>>

\* -------------------------------------------------------- collect_secrets
\* FilterSecrets collecting into a set: a reference is kept at its first
\* occurrence only.
RECURSIVE FilterSecretsOnce(_, _)
FilterSecretsOnce(e, keys) ==
    IF keys = <<>>
    THEN <<>>
    ELSE LET rest == FilterSecretsOnce(e, SubSeq(keys, 1, Len(keys) - 1))
             last == e[keys[Len(keys)]]
         IN  IF last.variant = "Secret" /\ last.secret \notin Range(rest)
             THEN Append(rest, last.secret)
             ELSE rest

\* env.values().filter_map(|v| v.as_secret().cloned()).collect::<Vec<_>>()
RECURSIVE FilterSecrets(_, _)
FilterSecrets(e, keys) ==
    IF keys = <<>>
    THEN <<>>
    ELSE IF e[Head(keys)].variant = "Secret"
    THEN <<e[Head(keys)].secret>> \o FilterSecrets(e, Tail(keys))
    ELSE FilterSecrets(e, Tail(keys))

CollectSecrets(t, e, keys) ==
    /\ CanCall(t)
    /\ env' = [env EXCEPT ![t] = e]
    /\ order' = [order EXCEPT ![t] = keys]
    /\ covered' = [covered EXCEPT ![t] = FALSE]
    /\ ret' = [ret EXCEPT ![t] = Returned("collect_secrets", Ok(FilterSecrets(e, keys)))]
    /\ pc' = [pc EXCEPT ![t] = "done"]
    /\ ClearPreResolveLocals(t)
    /\ UNCHANGED <<library, windows, caches, locks, inflight, iterLocals, history>>

\* ------------------------------------------------------------------ specs
SecretLists == SeqsUpTo(SecretRefs, MaxLen)

EnvKeys == {"API_KEY", "TOKEN"}

EnvMapsOver(values) == UNION {[K -> values] : K \in SUBSET EnvKeys}

\* The orders in which a HashMap iterator may yield the keys of e.
IterationOrders(e) ==
    {s \in [1..Cardinality(DOMAIN e) -> DOMAIN e] : Range(s) = DOMAIN e}

EnvMaps ==
    EnvMapsOver({Plain(<<"k">>), Plain(<<" ", "k">>)}
                \cup {Secret(r) : r \in SecretRefs})

\* One step of a pre_resolve call of thread t, its inputs drawn from the given sets.
PreResolveStep(t, lists, outs) ==
    \/ \E list \in lists : PreResolve(t, list)
    \/ CheckCache(t)
    \/ CheckFailures(t)
    \/ ResolveSecret(t)
    \/ \E out \in outs : ProviderCompletes(t, out)
    \/ PreResolveReturn(t)

\* One step of a resolve_env_map call of thread t.
ResolveEnvMapStep(t, envs) ==
    \/ \E e \in envs : ResolveEnvMap(t, e)
    \/ LockFailures(t)
    \/ \E keys \in IterationOrders(env[t]) : Rewrite(t, keys)

\* A collect_secrets call of thread t.
CollectSecretsStep(t, envs) ==
    \E e \in envs : \E keys \in IterationOrders(e) : CollectSecrets(t, e, keys)

\* The inputs of the concurrent runs: two references, a provider that prints
\* a value, exits with an error or cannot be started, and env maps over both
\* keys.
SharedRefs == {RefOp, RefPass}

SharedLists == SeqsUpTo(SharedRefs, MaxLen)

SharedOutputs ==
    {out \in ProcessOutputs :
        /\ out.stderr = <<>>
        /\ out.stdout \in {<<>>, <<"k">>}
        /\ (out.code = 0 /\ ~out.io => out.stdout # <<>>)}

SharedEnvs ==
    {e \in [EnvKeys -> {Plain(<<"k">>)} \cup {Secret(r) : r \in SharedRefs}] :
        e["API_KEY"] = Secret(RefOp) /\ e["TOKEN"] # Secret(RefOp)}

Next ==
    \E t \in Threads :
        \/ PreResolveStep(t, SharedLists, SharedOutputs)
        \/ ResolveEnvMapStep(t, SharedEnvs)

\* Threads call the shared resolver concurrently.
Spec == Init /\ [][Next]_vars

\* One thread uses the resolver: its calls never overlap.
SeqNext ==
    \/ PreResolveStep("t1", SecretLists, ProcessOutputs)
    \/ ResolveEnvMapStep("t1", EnvMaps)
    \/ CollectSecretsStep("t1", EnvMaps)

SpecSeq == Init /\ [][SeqNext]_vars

\* One step of a resolve_env_map call of thread t, the rewrite taken one
\* lookup at a time.
ResolveEnvMapLookups(t, envs) ==
    \/ \E e \in envs : ResolveEnvMap(t, e)
    \/ LockFailures(t)
    \/ \E keys \in IterationOrders(env[t]) : IterBegin(t, keys)
    \/ NextEntry(t)
    \/ GetFailure(t)

SnapNext ==
    \E t \in Threads :
        \/ PreResolveStep(t, SharedLists, SharedOutputs)
        \/ ResolveEnvMapLookups(t, SharedEnvs)

\* Threads call the shared resolver concurrently, and every lookup of a
\* rewrite is a step of its own.
SpecSnap == Init /\ [][SnapNext]_vars

\* The inputs of the runs in which every call is seen through: lists that
\* hold no reference twice, a provider that prints a value or exits with an
\* error, and one env map.
LiveLists == {list \in SharedLists : Cardinality(Range(list)) = Len(list)}

LiveOutputs == {out \in SharedOutputs : ~out.io}

LiveEnvs == {e \in SharedEnvs : e["TOKEN"] = Secret(RefPass)}

LiveNext ==
    \E t \in Threads :
        \/ PreResolveStep(t, LiveLists, LiveOutputs)
        \/ ResolveEnvMapStep(t, LiveEnvs)

\* A step of a call of t that is under way: every step but the entry of a call.
Proceeds(t) ==
    \/ CheckCache(t)
    \/ CheckFailures(t)
    \/ ResolveSecret(t)
    \/ \E out \in LiveOutputs : ProviderCompletes(t, out)
    \/ PreResolveReturn(t)
    \/ LockFailures(t)
    \/ \E keys \in IterationOrders(env[t]) : Rewrite(t, keys)

\* The executor polls a task that can go on, every provider process ends, and
\* a caller that waits for a mutex gets it in the end (parking_lot hands a
\* lock over to the waiting thread when it has waited long): a call whose
\* next step is possible again and again takes it.
Fairness == \A t \in Threads : SF_vars(Proceeds(t))

\* Threads call the shared resolver concurrently, and no call is left behind.
SpecLive == Init /\ [][LiveNext]_vars /\ Fairness

\* ------------------------------------------------- the functions, called
\* provider_command(&secret) on the platform of the build.
ProviderCommandCall(secret) ==
    /\ call' = [fn |-> "provider_command", secret |-> secret]
    /\ result' = ProviderCommand(secret, windows)
    /\ UNCHANGED <<resolver, handlers, latest>>

\* The three accessors of EnvValue, called on one value.
EnvValueCall(v) ==
    /\ call' = [fn |-> "EnvValue", value |-> v]
    /\ result' = [as_plain |-> AsPlain(v),
                  as_secret |-> AsSecret(v),
                  into_plain_string |-> IntoPlainString(v)]
    /\ UNCHANGED <<resolver, handlers, latest>>

Providers == {"1password", "pass", "command", "vault", "1Password", "PASS", "Command", ""}

References == {"op://v/i/f", "mail/imap", "printenv OPENAI_API_KEY", ""}

DispatchInputs == {SecretReference(p, r) : p \in Providers, r \in References}

EnvValues ==
    {Plain(v) : v \in SeqsUpTo({"k", " "}, MaxLen)}
        \cup {Secret(r) : r \in DispatchInputs}

FnNext ==
    \/ \E secret \in DispatchInputs : ProviderCommandCall(secret)
    \/ \E v \in EnvValues : EnvValueCall(v)

\* The stateless functions, called with every input on both platforms.
SpecFn == Init /\ [][FnNext]_vars

\* -------------------------------------------------- VirtualDocumentStore
RESERVED_SCHEMES == {"file", "http", "https", "ssh", "untitled"}

\* VirtualDocumentConfig::new(scheme, content_request_method, ..)
VirtualDocumentConfig(scheme, method) ==
    [scheme |-> scheme, content_request_method |-> method]

\* register_handler that inserts the configuration before it looks at the scheme.
RegisterHandlerInsertsFirst(config) ==
    /\ call' = [fn |-> "register_handler", config |-> config]
    /\ handlers' = MapInsert(handlers, config.scheme, config)
    /\ IF config.scheme \in RESERVED_SCHEMES
       THEN /\ result' = Bail(<<"cannot register virtual document handler for reserved scheme: {}",
                                 config.scheme>>)
            /\ UNCHANGED latest
       ELSE /\ result' = Ok(<<>>)
            /\ latest' = MapInsert(latest, config.scheme, config)
    /\ UNCHANGED resolver

\* register_handler that leaves the handler of a registered scheme in place.
RegisterHandlerKeepsFirst(config) ==
    /\ call' = [fn |-> "register_handler", config |-> config]
    /\ IF config.scheme \in RESERVED_SCHEMES
       THEN /\ result' = Bail(<<"cannot register virtual document handler for reserved scheme: {}",
                                 config.scheme>>)
            /\ UNCHANGED <<handlers, latest>>
       ELSE /\ handlers' = IF config.scheme \in DOMAIN handlers
                            THEN handlers
                            ELSE MapInsert(handlers, config.scheme, config)
            /\ result' = Ok(<<>>)
            /\ latest' = MapInsert(latest, config.scheme, config)
    /\ UNCHANGED resolver

\* VirtualDocumentStore::register_handler(&mut self, config)
RegisterHandler(config) ==
    /\ call' = [fn |-> "register_handler", config |-> config]
    /\ IF config.scheme \in RESERVED_SCHEMES
       THEN /\ result' = Bail(<<"cannot register virtual document handler for reserved scheme: {}",
                                 config.scheme>>)
            /\ UNCHANGED <<handlers, latest>>
       ELSE /\ handlers' = MapInsert(handlers, config.scheme, config)
            /\ result' = Ok(<<>>)
            /\ latest' = MapInsert(latest, config.scheme, config)
    /\ UNCHANGED resolver

\* self.handlers.get(scheme)
HandlersGet(h, scheme) == IF scheme \in DOMAIN h THEN Some(h[scheme]) ELSE None

\* VirtualDocumentStore::handler_for_scheme(&self, scheme)
HandlerForScheme(scheme) ==
    /\ call' = [fn |-> "handler_for_scheme", scheme |-> scheme]
    /\ result' = HandlersGet(handlers, scheme)
    /\ UNCHANGED <<resolver, handlers, latest>>

\* The reserved schemes, two schemes of language servers, and a reserved
\* scheme in capitals.
Schemes == RESERVED_SCHEMES \cup {"jdt", "rust-analyzer", "FILE"}

RequestMethods == {"java/classFileContents", "java/newMethod"}

Configs == {VirtualDocumentConfig(sch, m) : sch \in Schemes, m \in RequestMethods}

StoreNext ==
    \/ \E config \in Configs : RegisterHandler(config)
    \/ \E scheme \in Schemes : HandlerForScheme(scheme)

\* One owner of a VirtualDocumentStore registers handlers and looks them up.
SpecStore == Init /\ [][StoreNext]_vars

\* --------------------------------------------------- markdown table format
\* A text is a sequence of characters; a slice counts in bytes of UTF-8.
Utf8Len(c) == IF c = "U+3000" THEN 3 ELSE 1

\* str::len
RECURSIVE ByteLen(_)
ByteLen(s) == IF s = <<>> THEN 0 ELSE Utf8Len(Head(s)) + ByteLen(Tail(s))

\* UnicodeWidthStr::width
RECURSIVE UnicodeWidth(_)
UnicodeWidth(s) ==
    IF s = <<>> THEN 0
    ELSE (IF Head(s) = "U+3000" THEN 2 ELSE 1) + UnicodeWidth(Tail(s))

\* What an expression that may panic yields.
Panicked == [panic |-> TRUE]

Returns(v) == [panic |-> FALSE, value |-> v]

\* The number of characters before byte offset n, when n is a character
\* boundary of s.
CharsBefore(s, n) == {k \in 0..Len(s) : ByteLen(SubSeq(s, 1, k)) = n}

\* &s[..n]: panics when n is past the end or inside a character.
SliceTo(s, n) ==
    IF CharsBefore(s, n) = {} THEN Panicked
    ELSE Returns(SubSeq(s, 1, CHOOSE k \in CharsBefore(s, n) : TRUE))

\* &s[n..]
SliceFrom(s, n) ==
    IF CharsBefore(s, n) = {} THEN Panicked
    ELSE Returns(SubSeq(s, (CHOOSE k \in CharsBefore(s, n) : TRUE) + 1, Len(s)))

\* A line of str::lines without the "\r" of a "\r\n" ending.
StripCr(line) ==
    IF line # <<>> /\ line[Len(line)] = "\r"
    THEN SubSeq(line, 1, Len(line) - 1)
    ELSE line

\* str::lines: the text split at "\n"; the last line needs no ending.
RECURSIVE SplitLines(_, _)
SplitLines(s, cur) ==
    IF s = <<>> THEN (IF cur = <<>> THEN <<>> ELSE <<cur>>)
    ELSE IF Head(s) = "\n" THEN <<StripCr(cur)>> \o SplitLines(Tail(s), <<>>)
    ELSE SplitLines(Tail(s), Append(cur, Head(s)))

Lines(input) == SplitLines(input, <<>>)

\* [String]::join(sep) with a separator of several characters
RECURSIVE JoinWith(_, _)
JoinWith(parts, sep) ==
    IF parts = <<>> THEN <<>>
    ELSE IF Len(parts) = 1 THEN parts[1]
    ELSE parts[1] \o sep \o JoinWith(Tail(parts), sep)

\* " ".repeat(n), "-".repeat(n)
Repeat(c, n) == [i \in 1..n |-> c]

StripPrefix(s, c) == IF s # <<>> /\ Head(s) = c THEN Tail(s) ELSE s

StripSuffix(s, c) ==
    IF s # <<>> /\ s[Len(s)] = c THEN SubSeq(s, 1, Len(s) - 1) ELSE s

\* split_on_unescaped_pipe: a backslash takes the character after it along.
RECURSIVE SplitOnUnescapedPipe(_, _)
SplitOnUnescapedPipe(s, cur) ==
    IF s = <<>> THEN <<cur>>
    ELSE IF Head(s) = "\\"
    THEN IF Len(s) >= 2
         THEN SplitOnUnescapedPipe(Tail(Tail(s)), cur \o <<s[1], s[2]>>)
         ELSE <<Append(cur, s[1])>>
    ELSE IF Head(s) = "|"
    THEN <<cur>> \o SplitOnUnescapedPipe(Tail(s), <<>>)
    ELSE SplitOnUnescapedPipe(Tail(s), Append(cur, Head(s)))

\* parse_row
ParseRow(line) ==
    LET inner == StripSuffix(StripPrefix(Trim(line), "|"), "|")
        parts == SplitOnUnescapedPipe(inner, <<>>)
    IN  [j \in DOMAIN parts |-> Trim(parts[j])]

\* is_delimiter_row
IsDelimiterRow(cells) ==
    /\ cells # <<>>
    /\ \A j \in DOMAIN cells :
        LET trimmed == Trim(cells[j])
            inner == StripSuffix(StripPrefix(trimmed, ":"), ":")
        IN  /\ trimmed # <<>>
            /\ inner # <<>>
            /\ \A i \in DOMAIN inner : inner[i] = "-"

\* parse_alignment
ParseAlignment(cell) ==
    LET trimmed == Trim(cell)
        left == trimmed # <<>> /\ Head(trimmed) = ":"
        right == trimmed # <<>> /\ trimmed[Len(trimmed)] = ":"
    IN  IF left /\ right THEN "Center"
        ELSE IF right THEN "Right"
        ELSE IF left THEN "ExplicitLeft"
        ELSE "Left"

\* usize::saturating_sub
SaturatingSub(a, b) == IF a >= b THEN a - b ELSE 0

\* pad_cell
PadCell(content, width, alignment) ==
    LET content_width == UnicodeWidth(content)
        padding == width - content_width
        left_pad == padding \div 2
    IN  IF content_width >= width THEN content
        ELSE IF alignment \in {"Left", "ExplicitLeft"}
        THEN content \o Repeat(" ", padding)
        ELSE IF alignment = "Right"
        THEN Repeat(" ", padding) \o content
        ELSE Repeat(" ", left_pad) \o content \o Repeat(" ", padding - left_pad)

\* alignments.get(j).copied().unwrap_or(Alignment::Left)
AlignmentOf(alignments, j) ==
    IF j \in DOMAIN alignments THEN alignments[j] ELSE "Left"

\* format!("{indent}| {} |", parts.join(" | "))
FormatRow(parts, indent) ==
    indent \o <<"|", " ">> \o JoinWith(parts, <<" ", "|", " ">>) \o <<" ", "|">>

\* format_content_row
FormatContentRow(cells, widths, alignments, indent) ==
    FormatRow([j \in DOMAIN widths |->
                 PadCell(IF j \in DOMAIN cells THEN cells[j] ELSE <<>>,
                         widths[j], AlignmentOf(alignments, j))],
              indent)

\* The dashes of one delimiter cell.
Dashes(width, alignment) ==
    CASE alignment = "Left" -> Repeat("-", width)
      [] alignment = "ExplicitLeft" -> <<":">> \o Repeat("-", SaturatingSub(width, 1))
      [] alignment = "Center" ->
            <<":">> \o Repeat("-", SaturatingSub(width, 2)) \o <<":">>
      [] alignment = "Right" -> Repeat("-", SaturatingSub(width, 1)) \o <<":">>

\* format_delimiter_row
FormatDelimiterRow(widths, alignments, indent) ==
    FormatRow([j \in DOMAIN widths |-> Dashes(widths[j], AlignmentOf(alignments, j))],
              indent)

\* The least width of a column: the three dashes of a delimiter cell.
MinColumnWidth == 3

Max(S) == CHOOSE x \in S : \A y \in S : y <= x

Min(S) == CHOOSE x \in S : \A y \in S : x <= y

\* The common leading indent, in bytes, of the lines that are not blank.
IndentLen(lines) ==
    LET nonBlank == {i \in DOMAIN lines : Trim(lines[i]) # <<>>}
    IN  IF nonBlank = {} THEN 0
        ELSE Min({ByteLen(lines[i]) - ByteLen(TrimStart(lines[i])) : i \in nonBlank})

\* format_markdown_table once every line is parsed into cells.
FormatParsed(parsed, indent) ==
    LET delimiters == {i \in DOMAIN parsed : IsDelimiterRow(parsed[i])}
    IN  IF delimiters = {} THEN Returns(None)
        ELSE
        LET delimiter_index == Min(delimiters)
            alignments == [j \in DOMAIN parsed[delimiter_index] |->
                             ParseAlignment(parsed[delimiter_index][j])]
            column_count == Max({Len(parsed[i]) : i \in DOMAIN parsed})
            widths == [j \in 1..column_count |->
                         Max({MinColumnWidth} \cup
                             {UnicodeWidth(parsed[i][j]) :
                                i \in {r \in DOMAIN parsed :
                                         r # delimiter_index /\ j <= Len(parsed[r])}})]
            rows == [i \in DOMAIN parsed |->
                       IF i = delimiter_index
                       THEN FormatDelimiterRow(widths, alignments, indent)
                       ELSE FormatContentRow(parsed[i], widths, alignments, indent)]
        IN  IF column_count = 0 THEN Returns(None)
            ELSE Returns(Some(JoinWith(rows, <<"\n">>)))

\* format_markdown_table
FormatMarkdownTable(input) ==
    LET lines == Lines(input)
    IN  IF Len(lines) < 2 THEN Returns(None)
        ELSE
        LET indent_len == IndentLen(lines)
            indent == SliceTo(lines[1], indent_len)
            sliced == [i \in DOMAIN lines |-> SliceFrom(lines[i], indent_len)]
        IN  IF indent.panic \/ \E i \in DOMAIN lines : sliced[i].panic
            THEN Panicked
            ELSE FormatParsed([i \in DOMAIN lines |-> ParseRow(sliced[i].value)],
                              indent.value)

\* format_markdown_table(input), called on the input the run started with.
FormatMarkdownTableCall ==
    /\ call.fn = "format_markdown_table"
    /\ call.pending
    /\ call' = [call EXCEPT !.pending = FALSE]
    /\ result' = FormatMarkdownTable(call.input)
    /\ UNCHANGED <<resolver, handlers, latest>>

MaxLines == 3

\* No indent, a space, and a space of three bytes.
TableIndents == {<<>>, <<" ">>, <<"U+3000">>}

\* A blank line, rows with and without outer pipes, delimiter rows of one and
\* two cells, and a row with a wide cell and an escaped pipe.
TableBodies ==
    { <<>>,
      <<"|", "a", "|">>,
      <<"|", "-", "|">>,
      <<"a", "|", "a">>,
      <<":", "-", ":", "|", "-">>,
      <<"a", "a", "a", "a", "|", "\\", "|">>,
      <<"-">> }

TableLines == {indent \o body : indent \in TableIndents, body \in TableBodies}

TableInputs == {JoinWith(ls, <<"\n">>) : ls \in SeqsUpTo(TableLines, MaxLines)}

TableInit ==
    /\ ResolverInit
    /\ call \in {[fn |-> "format_markdown_table", input |-> input, pending |-> TRUE] :
                    input \in TableInputs}
    /\ result = <<>>
    /\ handlers = EmptyMap
    /\ latest = EmptyMap

TableNext == FormatMarkdownTableCall

\* format_markdown_table, called once on each input.
SpecTable == TableInit /\ [][TableNext]_vars

\* ----------------------------------------------------------------- claims
PreResolveDone(t) == pc[t] = "done" /\ ret[t].op = "pre_resolve"

Cached(r) == r \in DOMAIN cache \/ r \in DOMAIN failures

\* C1: when the calls on a resolver do not overlap, resolve_secret is called
\* exactly once for every reference handed to pre_resolve, however often and
\* in whatever lists it is handed over: never twice, and once by the time the
\* call returns.  A call that repeats the list of the call before it invokes
\* no provider and changes neither cache, whether the references had
\* resolved or failed.
C1_OncePerReference ==
    /\ [](\A r \in SecretRefs : invocations[r] <= 1)
    /\ [](\A t \in Threads :
            PreResolveDone(t) => \A r \in Range(secrets[t]) : invocations[r] = 1)
    /\ [][\A t \in Threads :
            again[t] => UNCHANGED <<cache, failures, invocations, inflight>>]_vars

\* A call was repeated over a reference that had failed and one that had
\* resolved, and has returned.
C1_RepeatedCallReturned ==
    /\ PreResolveDone("t1")
    /\ again["t1"]
    /\ secrets["t1"] = <<RefVault, RefOp>>
    /\ RefVault \in DOMAIN failures
    /\ RefOp \in DOMAIN cache
    /\ invocations[RefVault] = 1
    /\ invocations[RefOp] = 1


InCall(t) == pc[t] \in {"loop", "checkFailures", "resolve", "await"}

InFlightOf(t) == {m \in inflight : m.thread = t}

\* C2: a pre_resolve call has at most one provider process running, the one
\* for the reference its loop stands at; when resolve_secret is called for a
\* position, every earlier position of the list has its result in a cache;
\* and the loop walks the unchanged list forward, one position at a time.
C2_OneInvocationAtATime ==
    /\ [](\A t \in Threads :
            /\ Cardinality(InFlightOf(t)) <= 1
            /\ \A m \in InFlightOf(t) :
                    /\ pc[t] = "await"
                    /\ m.pos = idx[t]
                    /\ m.secret = secrets[t][m.pos]
            /\ pc[t] \in {"resolve", "await"} =>
                    /\ \A k \in 1..(idx[t] - 1) : Cached(secrets[t][k])
                    /\ (pc[t] = "resolve" => InFlightOf(t) = {}))
    /\ [][\A t \in Threads :
            InCall(t) => /\ secrets'[t] = secrets[t]
                         /\ idx'[t] \in {idx[t], idx[t] + 1}]_vars

\* A call that nobody else helped awaits the provider for the second
\* reference of its list, the first one resolved.
C2_AwaitingSecondReference ==
    /\ pc["t2"] = "idle"
    /\ pc["t1"] = "await"
    /\ secrets["t1"] = <<RefOp, RefPass>>
    /\ inflight = {[thread |-> "t1", pos |-> 2, secret |-> RefPass]}
    /\ RefOp \in DOMAIN cache

\* C3: there is no single flight across calls.  Two provider processes for
\* one reference never belong to the same call, and a reference is resolved
\* at most once by each caller; but two overlapping calls may both find a
\* reference uncached and both invoke its provider (the witness).
C3_DuplicatesOnlyAcrossCalls ==
    /\ \A m1, m2 \in inflight :
            m1.secret = m2.secret /\ m1.thread = m2.thread => m1 = m2
    /\ \A r \in SecretRefs : invocations[r] <= Cardinality(Threads)

\* Two calls have each a provider process running for the same reference.
C3_TwoInvocationsInFlight ==
    \E m1, m2 \in inflight :
        /\ m1.thread # m2.thread
        /\ m1.secret = m2.secret
        /\ invocations[m1.secret] = 2
        /\ ~Cached(m1.secret)


\* v is s without its leading and trailing whitespace.
IsTrimOf(v, s) ==
    /\ \E i \in 0..Len(s) : \E j \in i..Len(s) :
            /\ v = SubSeq(s, i + 1, j)
            /\ \A k \in (1..i) \cup ((j + 1)..Len(s)) : s[k] \in Whitespace
    /\ v # <<>> => v[1] \notin Whitespace /\ v[Len(v)] \notin Whitespace

\* C4: one failed reference does not end the batch.  When a call returns and
\* the calls on the resolver have not overlapped (a fresh resolver and one
\* call is the first case), every reference of its list has been attempted,
\* the success cache holds exactly the references whose invocation succeeded,
\* each with the trimmed standard output, and the failure cache exactly the
\* references whose invocation failed, also when the call reports failure.
C4_PartialFailureKept ==
    \A t \in Threads :
        PreResolveDone(t) =>
            /\ Range(secrets[t]) \subseteq (DOMAIN resolved) \cup (DOMAIN rejected)
            /\ DOMAIN cache = DOMAIN resolved
            /\ \A r \in DOMAIN cache : IsTrimOf(cache[r], resolved[r])
            /\ DOMAIN failures = DOMAIN rejected
            /\ ret[t].ok = (failLog[t] = <<>>)

\* A call on a fresh resolver found its first reference failing and went on
\* to resolve the second one; it has reported failure and the value is kept.
C4_FailureThenSuccess ==
    /\ PreResolveDone("t1")
    /\ ~ret["t1"].ok
    /\ secrets["t1"] = <<RefVault, RefOp>>
    /\ failLog["t1"] = <<RefVault>>
    /\ DOMAIN failures = {RefVault}
    /\ DOMAIN cache = {RefOp}
    /\ cache[RefOp] = <<"k">>
    /\ resolved[RefOp] = <<" ", "k">>

\* The pieces of a joined text: the inverse of Join.
RECURSIVE SplitOn(_, _, _)
SplitOn(text, sep, piece) ==
    IF text = <<>> THEN <<piece>>
    ELSE IF Head(text) = sep THEN <<piece>> \o SplitOn(Tail(text), sep, <<>>)
    ELSE SplitOn(Tail(text), sep, Append(piece, Head(text)))

\* C5: pre_resolve returns Ok when no reference failed in this call, and
\* otherwise one error whose count is the number of references that failed
\* in this call and whose text lists their messages in the order in which
\* they failed, separated by "; ".
C5_AggregatedError ==
    \A t \in Threads :
        PreResolveDone(t) =>
            IF failLog[t] = <<>>
            THEN ret[t].ok
            ELSE /\ ~ret[t].ok
                 /\ Len(ret[t].err) = 1
                 /\ ret[t].err[1][1] = "failed to resolve {} secret(s): {}"
                 /\ ret[t].err[1][2] = Len(failLog[t])
                 /\ SplitOn(ret[t].err[1][3], "; ", <<>>) =
                        [k \in 1..Len(failLog[t]) |->
                            <<"failed to resolve secret (provider: {}, reference: {})",
                              failLog[t][k].provider, failLog[t][k].reference>>]

\* A call in which two references failed one after the other has returned.
C5_TwoFailuresReported ==
    /\ PreResolveDone("t1")
    /\ ~ret["t1"].ok
    /\ secrets["t1"] = <<RefPass, RefOp>>
    /\ failLog["t1"] = <<RefPass, RefOp>>
    /\ ret["t1"].err[1][2] = 2


CollectSecretsDone(t) == pc[t] = "done" /\ ret[t].op = "collect_secrets"

ResolveEnvMapDone(t) == pc[t] = "done" /\ ret[t].op = "resolve_env_map"

SecretKeys(e) == {k \in DOMAIN e : e[k].variant = "Secret"}

Occurrences(list, x) == Cardinality({i \in DOMAIN list : list[i] = x})

\* C6 as stated: collect_secrets returns the distinct references held by the
\* Secret entries of the map, none of them twice.
C6_NoDuplicates ==
    \A t \in Threads :
        CollectSecretsDone(t) =>
            /\ Range(ret[t].value) = {env[t][k].secret : k \in SecretKeys(env[t])}
            /\ \A r \in SecretRefs : Occurrences(ret[t].value, r) <= 1

\* C6, amended: collect_secrets returns one entry for every Secret entry of
\* the map, in iteration order.  The references it returns are exactly those
\* held by Secret entries, and a reference held under n keys is returned n
\* times.
C6_OneEntryPerSecretEntry ==
    \A t \in Threads :
        CollectSecretsDone(t) =>
            /\ ret[t].ok
            /\ Range(ret[t].value) = {env[t][k].secret : k \in SecretKeys(env[t])}
            /\ \A r \in SecretRefs :
                    Occurrences(ret[t].value, r) =
                        Cardinality({k \in SecretKeys(env[t]) : env[t][k].secret = r})

\* collect_secrets has returned for a map that holds one reference under two keys.
C6_SameReferenceUnderTwoKeys ==
    /\ CollectSecretsDone("t1")
    /\ env["t1"] = [k \in EnvKeys |-> Secret(RefOp)]
    /\ ret["t1"].value = <<RefOp, RefOp>>

\* C7: in the map resolve_env_map returns, every Secret entry of the input
\* stands under its key as Plain(v), v being the standard output of the
\* provider for its reference without the surrounding whitespace; and it
\* returns that map whenever every Secret entry holds a resolved reference.
C7_SubstitutesTrimmedOutput ==
    \A t \in Threads :
        ResolveEnvMapDone(t) =>
            /\ (\A k \in SecretKeys(env[t]) : env[t][k].secret \in DOMAIN resolved)
                    => ret[t].ok
            /\ ret[t].ok =>
                    \A k \in SecretKeys(env[t]) :
                        /\ env[t][k].secret \in DOMAIN resolved
                        /\ k \in DOMAIN ret[t].value
                        /\ ret[t].value[k].variant = "Plain"
                        /\ IsTrimOf(ret[t].value[k].value, resolved[env[t][k].secret])

\* The provider printed the value with whitespace after it, and a map
\* holding the reference has been rewritten.
C7_TrimmedValueSubstituted ==
    /\ ResolveEnvMapDone("t1")
    /\ env["t1"] = ("TOKEN" :> Secret(RefOp))
    /\ resolved = (RefOp :> <<"k", " ">>)
    /\ ret["t1"].ok
    /\ ret["t1"].value = ("TOKEN" :> Plain(<<"k">>))

\* The keys of the Secret entries whose reference is not in the success cache.
Unresolved(e) == {k \in SecretKeys(e) : e[k].secret \notin DOMAIN cache}

NeverPresented(e) == {k \in Unresolved(e) : e[k].secret \notin DOMAIN failures}

PreviouslyFailed(e) == {k \in Unresolved(e) : e[k].secret \in DOMAIN failures}

NotPreResolvedMessage(key, secret) ==
    <<"secret not pre-resolved for '{}' (provider: {}, reference: {})",
      key, secret.provider, secret.reference>>

PreviouslyFailedMessage(key, secret, message) ==
    <<"failed to resolve secret for '{}' (provider: {}, reference: {}): {}",
      key, secret.provider, secret.reference, message>>

\* The first key, in iteration order, of an entry that cannot be rewritten.
FirstUnresolved(e, keys) ==
    keys[CHOOSE i \in DOMAIN keys :
            /\ keys[i] \in Unresolved(e)
            /\ \A j \in 1..(i - 1) : keys[j] \notin Unresolved(e)]

\* A resolve_env_map call starts no provider: it changes no count of
\* invocations and no set of running processes.
RewriteInvokesNothing ==
    \A t \in Threads :
        (pc[t] \in {"lockFailures", "rewrite"} \/ pc'[t] \in {"lockFailures", "rewrite"})
            => UNCHANGED <<invocations, inflight, cache, failures>>

\* C8 as stated: a map with an entry whose reference is in neither cache
\* makes resolve_env_map fail with the "not pre-resolved" error naming the
\* key, provider and reference of such an entry.
C8_NotPreResolvedReported ==
    \A t \in Threads :
        ResolveEnvMapDone(t) /\ NeverPresented(env[t]) # {} =>
            /\ ~ret[t].ok
            /\ \E k \in NeverPresented(env[t]) :
                    ret[t].err = <<NotPreResolvedMessage(k, env[t][k].secret)>>

\* C8, amended: a map with an entry whose reference is in neither cache
\* makes resolve_env_map fail, and no provider is invoked.  The error is the
\* one of the first entry, in iteration order, whose reference is not in the
\* success cache: when that reference is in neither cache, it is the "not
\* pre-resolved" error with that entry's key, provider and reference.
C8_FirstUnresolvedNotPreResolved ==
    /\ [](\A t \in Threads :
            ResolveEnvMapDone(t) /\ NeverPresented(env[t]) # {} =>
                /\ ~ret[t].ok
                /\ LET k == FirstUnresolved(env[t], order[t])
                   IN  k \in NeverPresented(env[t]) =>
                        ret[t].err = <<NotPreResolvedMessage(k, env[t][k].secret)>>)
    /\ [][RewriteInvokesNothing]_vars

\* resolve_env_map has failed on API_KEY, whose reference was never handed
\* to pre_resolve, in a resolver that has resolved other references.
C8_NeverPresentedKeyReported ==
    /\ ResolveEnvMapDone("t1")
    /\ env["t1"] = ("API_KEY" :> Secret(RefPass) @@ "TOKEN" :> Secret(RefOp))
    /\ RefOp \in DOMAIN cache
    /\ ~Cached(RefPass)
    /\ ret["t1"].err = <<NotPreResolvedMessage("API_KEY", RefPass)>>

\* C9 as stated: a map with an entry whose reference is in the failure
\* cache and not in the success cache makes resolve_env_map fail with the
\* error carrying the key, provider and reference of such an entry and the
\* message pre_resolve cached for it.
C9_CachedFailureReported ==
    \A t \in Threads :
        ResolveEnvMapDone(t) /\ PreviouslyFailed(env[t]) # {} =>
            /\ ~ret[t].ok
            /\ \E k \in PreviouslyFailed(env[t]) :
                    ret[t].err = <<PreviouslyFailedMessage(k, env[t][k].secret,
                                        ResolveContext(env[t][k].secret))>>

\* C9, amended: a map with an entry whose reference is in the failure cache
\* and not in the success cache makes resolve_env_map fail, and no provider
\* is invoked.  The error is the one of the first entry, in iteration order,
\* whose reference is not in the success cache: when that reference is in
\* the failure cache, the error carries that entry's key, provider and
\* reference, and the message that pre_resolve stored when the reference
\* failed.
C9_FirstUnresolvedCachedFailure ==
    /\ [](\A t \in Threads :
            ResolveEnvMapDone(t) /\ PreviouslyFailed(env[t]) # {} =>
                /\ ~ret[t].ok
                /\ LET k == FirstUnresolved(env[t], order[t])
                   IN  k \in PreviouslyFailed(env[t]) =>
                        /\ failures[env[t][k].secret] = ResolveContext(env[t][k].secret)
                        /\ ret[t].err =
                             <<PreviouslyFailedMessage(k, env[t][k].secret,
                                    ResolveContext(env[t][k].secret))>>)
    /\ [][RewriteInvokesNothing]_vars

\* resolve_env_map has failed on TOKEN, whose reference had failed in
\* pre_resolve because the provider exited with an error.
C9_FailedKeyReported ==
    /\ ResolveEnvMapDone("t1")
    /\ env["t1"] = ("API_KEY" :> Plain(<<"k">>) @@ "TOKEN" :> Secret(RefOp))
    /\ rejected = (RefOp :> "exit status")
    /\ ret["t1"].err =
            <<PreviouslyFailedMessage("TOKEN", RefOp, ResolveContext(RefOp))>>

\* C10: when resolve_env_map succeeds, the map it returns has the keys of the
\* input, holds Plain values only, and holds every Plain entry of the input
\* unchanged; a map without Secret entries is returned as it is, whatever
\* the caches hold.
C10_OnlyNarrowsSecretToPlain ==
    \A t \in Threads :
        ResolveEnvMapDone(t) =>
            /\ ret[t].ok =>
                    /\ DOMAIN ret[t].value = DOMAIN env[t]
                    /\ \A k \in DOMAIN env[t] :
                            /\ ret[t].value[k].variant = "Plain"
                            /\ env[t][k].variant = "Plain" => ret[t].value[k] = env[t][k]
            /\ SecretKeys(env[t]) = {} => ret[t].ok /\ ret[t].value = env[t]

\* A map with an untrimmed plain value and a resolved secret has been
\* rewritten.
C10_PlainKeptSecretNarrowed ==
    /\ ResolveEnvMapDone("t1")
    /\ env["t1"] = ("API_KEY" :> Plain(<<" ", "k">>) @@ "TOKEN" :> Secret(RefOp))
    /\ ret["t1"].ok
    /\ ret["t1"].value = ("API_KEY" :> Plain(<<" ", "k">>) @@ "TOKEN" :> Plain(<<"k">>))

\* C11: resolve_env_map is all or nothing.  The step that ends the rewrite
\* returns a map exactly when the reference of every Secret entry is in the
\* success cache at that moment, and that map is complete; otherwise it
\* returns an error, and nothing of the entries rewritten before the failing
\* one.
C11_AllOrNothing ==
    [][\A t \in Threads :
        pc[t] = "rewrite" /\ pc'[t] = "done" =>
            /\ ret'[t].ok =
                    (\A k \in SecretKeys(env[t]) : env[t][k].secret \in DOMAIN cache)
            /\ ret'[t].ok =>
                    /\ DOMAIN ret'[t].value = DOMAIN env[t]
                    /\ \A k \in DOMAIN env[t] : ret'[t].value[k].variant = "Plain"
            /\ ~ret'[t].ok => ret'[t].value = <<>> /\ Len(ret'[t].err) = 1]_vars

\* The rewrite met a resolved reference first and an unresolved one after
\* it, and has returned an error and no map.
C11_AbortedAfterFirstEntry ==
    /\ ResolveEnvMapDone("t1")
    /\ env["t1"] = ("API_KEY" :> Secret(RefOp) @@ "TOKEN" :> Secret(RefPass))
    /\ order["t1"] = <<"API_KEY", "TOKEN">>
    /\ RefOp \in DOMAIN cache
    /\ ~Cached(RefPass)
    /\ ~ret["t1"].ok
    /\ ret["t1"].value = <<>>

\* A step of a resolve_env_map call of t: its entry, the second lock, or the
\* rewrite and return.
RewriteStep(t) ==
    /\ pc'[t] # pc[t]
    /\ pc[t] \in {"lockFailures", "rewrite"} \/ pc'[t] \in {"lockFailures", "rewrite"}

\* A step of a pre_resolve call of t that ends an attempt and stores its result.
StoreStep(t) == pc[t] \in {"resolve", "await"} /\ pc'[t] = "loop"

\* C12: no step of a resolve_env_map call changes a cache or starts a
\* provider, whether the call returns a map or an error and whatever other
\* calls are running; a cache changes only in a step of pre_resolve that
\* stores the result of an attempt.
C12_RewriteOnlyReads ==
    /\ [][\A t \in Threads :
            RewriteStep(t) => UNCHANGED <<cache, failures, invocations, inflight>>]_vars
    /\ [][cache' # cache \/ failures' # failures
            => \E t \in Threads : StoreStep(t)]_vars

\* One rewrite has returned a map and another an error for a reference
\* nobody resolved; the caches hold what pre_resolve had put there and the
\* missing reference has not been looked up.
C12_RewrittenTwiceNothingAdded ==
    /\ ResolveEnvMapDone("t1") /\ ret["t1"].ok
    /\ ResolveEnvMapDone("t2") /\ ~ret["t2"].ok
    /\ env["t2"] = ("API_KEY" :> Secret(RefOp) @@ "TOKEN" :> Secret(RefPass))
    /\ DOMAIN cache = {RefOp}
    /\ DOMAIN failures = {}
    /\ invocations[RefOp] = 1
    /\ invocations[RefPass] = 0
    /\ inflight = {}

\* C13: both caches only grow.  In every step of every interleaving of
\* calls, a reference that is a key of the success cache stays one, and a
\* reference that is a key of the failure cache stays one.
C13_CachesOnlyGrow ==
    [][/\ DOMAIN cache \subseteq DOMAIN cache'
       /\ DOMAIN failures \subseteq DOMAIN failures']_vars

\* Two overlapping calls attempted the same reference, one failed and the
\* other resolved it: the reference is a key of both caches.
C13_FailedAndResolved ==
    /\ RefOp \in DOMAIN cache
    /\ RefOp \in DOMAIN failures
    /\ invocations[RefOp] = 2
    /\ inflight = {}

\* C14: a failure message, once in the failure cache, stays as it is.  In
\* every step of every interleaving of calls, each reference of the failure
\* cache keeps the message it has, also in a step that inserts a failure for
\* that reference again.
C14_FailureMessageKept ==
    [][\A r \in DOMAIN failures :
            r \in DOMAIN failures' /\ failures'[r] = failures[r]]_vars

\* Two overlapping calls have each seen the same reference fail, so its
\* failure was inserted twice, the second time after a spawn error.
C14_FailureInsertedTwice ==
    /\ PreResolveDone("t1") /\ PreResolveDone("t2")
    /\ failLog["t1"] = <<RefOp>>
    /\ failLog["t2"] = <<RefOp>>
    /\ invocations[RefOp] = 2
    /\ rejected[RefOp] = "spawn"
    /\ failures[RefOp] = ResolveContext(RefOp)

\* The locks a thread holds.
HeldBy(t) ==
    (IF cacheLock = t THEN {"cache"} ELSE {})
        \cup (IF failuresLock = t THEN {"failures"} ELSE {})

\* C15: a call that is suspended on a provider holds no lock.  A pre_resolve
\* call holds the cache lock only between the two lookups of its check and
\* nothing from there to the end of the attempt; the locks are held for the
\* length of a rewrite by resolve_env_map alone, which never suspends.
C15_NoLockAcrossAwait ==
    \A t \in Threads :
        /\ pc[t] \in {"resolve", "await"} => HeldBy(t) = {}
        /\ InFlightOf(t) # {} => HeldBy(t) = {}
        /\ HeldBy(t) # {} => pc[t] \in {"checkFailures", "lockFailures", "rewrite"}

\* While one call awaits its provider, another caller holds both locks.
C15_LocksTakenDuringAwait ==
    /\ pc["t1"] = "await"
    /\ InFlightOf("t1") # {}
    /\ pc["t2"] = "rewrite"
    /\ HeldBy("t2") = {"cache", "failures"}

\* C16: provider_command dispatches on the exact provider name.  "1password"
\* gives op read <reference>; "command" gives sh -c <reference>, and on
\* Windows pwsh -NoLogo -NoProfile -NonInteractive -Command <reference>;
\* "pass" gives pass show <reference>, and on Windows the error that pass is
\* not supported; every other name, a supported one in another case
\* included, gives the error "unsupported secret provider: '<name>'".  A
\* command always ends with the reference as it was given.
C16_DispatchTable ==
    call.fn = "provider_command" =>
        LET provider == call.secret.provider
            reference == call.secret.reference
        IN  /\ provider = "1password" =>
                    result = Ok([program |-> "op", args |-> <<"read", reference>>])
            /\ provider = "command" /\ ~windows =>
                    result = Ok([program |-> "sh", args |-> <<"-c", reference>>])
            /\ provider = "command" /\ windows =>
                    result = Ok([program |-> "pwsh",
                                 args |-> <<"-NoLogo", "-NoProfile", "-NonInteractive",
                                            "-Command", reference>>])
            /\ provider = "pass" /\ ~windows =>
                    result = Ok([program |-> "pass", args |-> <<"show", reference>>])
            /\ provider = "pass" /\ windows =>
                    /\ ~result.ok
                    /\ result.err = <<<<"secret provider 'pass' is not supported on Windows">>>>
            /\ provider \notin {"1password", "command", "pass"} =>
                    /\ ~result.ok
                    /\ result.err = <<<<"unsupported secret provider: '{}'", provider>>>>
            /\ result.ok =>
                    result.value.args[Len(result.value.args)] = reference

\* provider_command was called with a provider spelled "PASS" on a POSIX
\* build and has rejected it.
C16_OtherCaseRejected ==
    /\ call.fn = "provider_command"
    /\ ~windows
    /\ call.secret = SecretReference("PASS", "mail/imap")
    /\ ~result.ok
    /\ result.err = <<<<"unsupported secret provider: '{}'", "PASS">>>>

\* C17: of as_plain and as_secret exactly one returns a value, the one of
\* the active variant; into_plain_string returns the string of a Plain value
\* and, for a Secret, the error "unresolved secret reference" with provider
\* and reference, never a string.
C17_ExactlyOneAccessor ==
    call.fn = "EnvValue" =>
        LET v == call.value
        IN  /\ result.as_plain.some # result.as_secret.some
            /\ v.variant = "Plain" =>
                    /\ result.as_plain = Some(v.value)
                    /\ result.into_plain_string.ok
                    /\ result.into_plain_string.value = v.value
            /\ v.variant = "Secret" =>
                    /\ result.as_secret = Some(v.secret)
                    /\ ~result.into_plain_string.ok
                    /\ result.into_plain_string.err =
                            <<<<"unresolved secret reference (provider: {}, reference: {})",
                                v.secret.provider, v.secret.reference>>>>

\* The accessors were called on a Secret value: as_secret alone returned
\* something and into_plain_string failed.
C17_SecretNotCoerced ==
    /\ call.fn = "EnvValue"
    /\ call.value = Secret(RefOp)
    /\ ~result.as_plain.some
    /\ result.as_secret = Some(RefOp)
    /\ ~result.into_plain_string.ok

\* C18: no reserved scheme is ever a key of the handler registry, whatever
\* was registered before; register_handler for a reserved scheme returns an
\* error, naming the scheme, and leaves the registry as it was.
C18_ReservedNeverRegistered ==
    /\ [](DOMAIN handlers \cap RESERVED_SCHEMES = {})
    /\ [][call'.fn = "register_handler" /\ call'.config.scheme \in RESERVED_SCHEMES
            => /\ ~result'.ok
               /\ result'.err =
                    <<<<"cannot register virtual document handler for reserved scheme: {}",
                        call'.config.scheme>>>>
               /\ handlers' = handlers]_vars

\* register_handler has refused "https" in a store that holds two handlers.
C18_ReservedRefused ==
    /\ call = [fn |-> "register_handler",
               config |-> VirtualDocumentConfig("https", "java/newMethod")]
    /\ ~result.ok
    /\ DOMAIN handlers = {"jdt", "rust-analyzer"}

\* C19: the registry answers with the last successful registration.  For
\* every scheme, handler_for_scheme returns the configuration of the last
\* register_handler call for it that succeeded, and nothing when there was
\* none; a registration for a registered scheme replaces that handler,
\* keeps the number of handlers and leaves every other scheme's handler as
\* it was.
C19_LastRegistrationWins ==
    /\ [](\A scheme \in Schemes :
            HandlersGet(handlers, scheme) =
                IF scheme \in DOMAIN latest THEN Some(latest[scheme]) ELSE None)
    /\ [](call.fn = "handler_for_scheme" =>
            result = IF call.scheme \in DOMAIN latest
                     THEN Some(latest[call.scheme]) ELSE None)
    /\ [][call'.fn = "register_handler" =>
            /\ \A scheme \in Schemes \ {call'.config.scheme} :
                    HandlersGet(handlers', scheme) = HandlersGet(handlers, scheme)
            /\ call'.config.scheme \in DOMAIN handlers =>
                    /\ Cardinality(DOMAIN handlers') = Cardinality(DOMAIN handlers)
                    /\ handlers'[call'.config.scheme] = call'.config]_vars

\* "jdt" was registered a second time, next to another scheme, and the
\* lookup returns the second configuration.
C19_ReplacedHandlerReturned ==
    /\ call = [fn |-> "handler_for_scheme", scheme |-> "jdt"]
    /\ result = Some(VirtualDocumentConfig("jdt", "java/newMethod"))
    /\ latest["jdt"] = VirtualDocumentConfig("jdt", "java/newMethod")
    /\ DOMAIN handlers = {"jdt", "rust-analyzer"}

FormatReturned == call.fn = "format_markdown_table" /\ ~call.pending

\* The input has a delimiter row: a line all of whose cells match :?-+:?
HasDelimiterRow(lines) == \E i \in DOMAIN lines : IsDelimiterRow(ParseRow(lines[i]))

\* The widths of the columns of a line of the formatted table: what stands
\* between two pipes, without the space on either side.
ColumnWidths(line) ==
    LET inner == StripSuffix(StripPrefix(TrimStart(line), "|"), "|")
        parts == SplitOnUnescapedPipe(inner, <<>>)
    IN  [j \in DOMAIN parts |-> UnicodeWidth(parts[j]) - 2]

\* What C20 says of an input and the value format_markdown_table returned.
NoneOrTable(input, value) ==
    LET lines == Lines(input)
    IN  IF Len(lines) < 2 \/ ~HasDelimiterRow(lines)
        THEN ~value.some
        ELSE /\ value.some
             /\ Len(Lines(value.value)) = Len(lines)
             /\ \A i \in DOMAIN Lines(value.value) :
                    LET widths == ColumnWidths(Lines(value.value)[i])
                    IN  \A j \in DOMAIN widths : widths[j] >= MinColumnWidth

\* C20 as stated: format_markdown_table returns None for an input of fewer
\* than 2 lines or without a delimiter row, and for every other input a
\* table of as many lines as the input whose columns are all at least 3 wide.
C20_NoneOrTable ==
    FormatReturned => ~result.panic /\ NoneOrTable(call.input, result.value)

\* C20, for the calls that return: whenever format_markdown_table returns,
\* it returns what C20 says.  (It does not return for every input: see
\* C20_NoneOrTable.)
C20_NoneOrTableWhenItReturns ==
    FormatReturned /\ ~result.panic => NoneOrTable(call.input, result.value)

\* format_markdown_table was called on an indented table with an empty line
\* in it and panicked at the slice of that line.
C20_PanicOnShortLine ==
    /\ FormatReturned
    /\ Lines(call.input) = << <<" ", "|", "a", "|">>, <<>>, <<" ", "|", "-", "|">> >>
    /\ result.panic

\* C21 as stated: in every reachable state, the states reached by
\* overlapping pre_resolve calls included, no reference is a key of both the
\* success cache and the failure cache.
C21_CachesDisjoint == DOMAIN cache \cap DOMAIN failures = {}

\* C21, for calls that do not overlap: the check at the head of the loop
\* keeps a reference of either cache from being attempted again, so no
\* reference becomes a key of both.  (Checked under SpecSeq; with
\* overlapping calls it fails: see C21_CachesDisjoint.)
C21_DisjointWithoutOverlap ==
    /\ [](DOMAIN cache \cap DOMAIN failures = {})
    /\ [][\A t \in Threads :
            StoreStep(t) => ~Cached(secrets[t][idx[t]])]_vars

\* Two overlapping calls over the same one reference have both returned:
\* the provider failed for the first and printed a value for the second,
\* the first call reports the failure, the second reports success, and the
\* reference is a key of both caches.
C21_FailedCallAndResolvedCall ==
    /\ PreResolveDone("t1") /\ ~ret["t1"].ok
    /\ PreResolveDone("t2") /\ ret["t2"].ok
    /\ secrets["t1"] = <<RefOp>>
    /\ secrets["t2"] = <<RefOp>>
    /\ RefOp \in DOMAIN cache \cap DOMAIN failures

\* The step in which the resolve_env_map call of t rewrites and returns.
RewriteReturns(t) == pc[t] = "rewrite" /\ pc'[t] = "done"

\* C22 as stated: once a pre_resolve call has returned success, a
\* resolve_env_map call that begins afterwards, on a map whose Secret
\* references were all in the list of that call, returns success, whatever
\* state the resolver was in before.
C22_SuccessThenRewriteSucceeds ==
    \A t \in Threads : ResolveEnvMapDone(t) /\ covered[t] => ret[t].ok

\* C22, amended: once a pre_resolve call has returned success, every
\* reference of its list is a key of the success cache or of the failure
\* cache.  A resolve_env_map call that begins afterwards, on a map whose
\* Secret references were all in that list, never returns the "not
\* pre-resolved" error: it returns success when none of them is a key of the
\* failure cache alone, and otherwise the cached failure of the first such
\* entry in iteration order.
C22_SuccessThenNoneUnseen ==
    /\ [](\A t \in Threads :
            PreResolveDone(t) /\ ret[t].ok =>
                \A r \in Range(secrets[t]) : Cached(r))
    /\ [][\A t \in Threads :
            RewriteReturns(t) /\ covered[t] =>
                /\ NeverPresented(env[t]) = {}
                /\ ret'[t].ok = (PreviouslyFailed(env[t]) = {})
                /\ ~ret'[t].ok =>
                    LET k == FirstUnresolved(env[t], order'[t])
                    IN  ret'[t].err =
                            <<PreviouslyFailedMessage(k, env[t][k].secret,
                                    failures[env[t][k].secret])>>]_vars

\* A reference failed in one call; the next call over it found the failure
\* cached, attempted nothing and returned success; the rewrite of a map
\* holding the reference, begun after that, has returned the cached failure.
C22_SuccessOverCachedFailure ==
    /\ ResolveEnvMapDone("t2")
    /\ covered["t2"]
    /\ PreResolveDone("t1") /\ ret["t1"].ok
    /\ secrets["t1"] = <<RefOp>>
    /\ env["t2"] = ("API_KEY" :> Secret(RefOp) @@ "TOKEN" :> Plain(<<"k">>))
    /\ RefOp \in DOMAIN failures \ DOMAIN cache
    /\ invocations[RefOp] = 1
    /\ ret["t2"].err =
            <<PreviouslyFailedMessage("API_KEY", RefOp, ResolveContext(RefOp))>>

\* The resolve_env_map call of t is between taking the second lock and its
\* return: the rewrite is under way.
Rewriting(t) == pc[t] \in {"rewrite", "next", "missed"}

\* C23: resolve_env_map reads one snapshot of both caches.  From the moment
\* it has both locks to its return it holds both, no step of any caller
\* changes either cache meanwhile, so nothing is inserted between a lookup
\* in the success cache and the lookup in the failure cache that follows
\* it, and what it returns is what the whole rewrite gives when computed
\* against the caches of the single state it returns from.
C23_ConsistentSnapshot ==
    /\ [](\A t \in Threads : Rewriting(t) => HeldBy(t) = {"cache", "failures"})
    /\ [][\A t \in Threads :
            Rewriting(t) => cache' = cache /\ failures' = failures]_vars
    /\ [][\A t \in Threads :
            Rewriting(t) /\ pc'[t] = "done" =>
                ret'[t] = Returned("resolve_env_map",
                                   CollectEntries(env[t], order[t], cache, failures,
                                                  EmptyMap))]_vars

\* A rewrite took its first entry from the success cache, missed the
\* second and returned "not pre-resolved" for it, while a pre_resolve call
\* of another caller was resolving that very reference: its provider is
\* still running, or has ended with the result not yet stored.
C23_RewriteDuringResolution ==
    /\ ResolveEnvMapDone("t2")
    /\ env["t2"] = ("API_KEY" :> Secret(RefOp) @@ "TOKEN" :> Secret(RefPass))
    /\ order["t2"] = <<"API_KEY", "TOKEN">>
    /\ ret["t2"].err = <<NotPreResolvedMessage("TOKEN", RefPass)>>
    /\ pc["t1"] = "await"
    /\ inflight = {[thread |-> "t1", pos |-> 2, secret |-> RefPass]}
    /\ RefOp \in DOMAIN cache
    /\ ~Cached(RefPass)

\* The thread that holds a lock, or NoThread.
Holder(lock) == IF lock = "cache" THEN cacheLock ELSE failuresLock

\* The locks the next step of t's call may have to take: the cache lock for
\* the first lookup of the check, the failures lock for the second one and
\* for the second guard of resolve_env_map, and the lock of the cache that
\* takes the result once the attempt has ended.
Wants(t) ==
    CASE pc[t] = "loop" /\ idx[t] <= Len(secrets[t]) -> {"cache"}
      [] pc[t] \in {"checkFailures", "lockFailures"} -> {"failures"}
      [] pc[t] = "resolve" ->
            IF ProviderCommand(secrets[t][idx[t]], windows).ok THEN {} ELSE {"failures"}
      [] pc[t] = "await" -> {"cache", "failures"}
      [] OTHER -> {}

\* t can take every lock its next step may need.
Unhindered(t) == \A lock \in Wants(t) : Holder(lock) = NoThread

\* C24: overlapping pre_resolve and resolve_env_map calls never deadlock.
\* No caller takes the success-cache lock while it holds the failures lock,
\* and none takes a lock it holds; so every lock a caller waits for is held
\* by another caller that waits for nothing, and in no state do two callers
\* each hold one lock and wait for the other's.
C24_NoDeadlock ==
    /\ [](\A t \in Threads : \A lock \in Wants(t) :
            \/ Holder(lock) = NoThread
            \/ Holder(lock) # t /\ Unhindered(Holder(lock)))
    /\ [][\A t \in Threads :
            /\ cacheLock' = t /\ cacheLock # t => failuresLock # t
            /\ failuresLock' = t /\ failuresLock # t => cacheLock \in {NoThread, t}]_vars

\* One call is between the two lookups of its check, holding the cache lock
\* and about to take the failures lock; the other has a result to store and
\* waits for the cache lock.
C24_WaitingForTheCacheLock ==
    /\ pc["t1"] = "checkFailures"
    /\ HeldBy("t1") = {"cache"}
    /\ pc["t2"] = "await"
    /\ InFlightOf("t2") # {}
    /\ "cache" \in Wants("t2")
    /\ Unhindered("t1")
    /\ ~Unhindered("t2")

\* C25: where every provider process ends, every pre_resolve call returns,
\* and when it has returned each reference of its list is a key of the
\* success cache or of the failure cache.  As long as the provider process a
\* call awaits has not ended, the call stays suspended at that reference: it
\* does not return, and it attempts no later reference of its list.
C25_ReturnsOnceProvidersEnd ==
    /\ \A t \in Threads : InCall(t) ~> PreResolveDone(t)
    /\ [](\A t \in Threads :
            PreResolveDone(t) => \A r \in Range(secrets[t]) : Cached(r))
    /\ [][\A t \in Threads :
            pc[t] = "await" /\ InFlightOf(t) \subseteq inflight' =>
                /\ pc'[t] = "await"
                /\ idx'[t] = idx[t]
                /\ ret'[t] = ret[t]
                /\ \A k \in idx[t]..Len(secrets[t]) :
                        invocations'[secrets[t][k]] > invocations[secrets[t][k]]
                            => \E u \in Threads \ {t} : pc[u] = "resolve"]_vars

\* A call over two references has returned after both provider processes
\* ended, the first with a failure: both references are keys of a cache.
C25_BothAttemptedAndReturned ==
    /\ PreResolveDone("t1")
    /\ secrets["t1"] = <<RefOp, RefPass>>
    /\ failLog["t1"] = <<RefOp>>
    /\ RefOp \in DOMAIN failures
    /\ RefPass \in DOMAIN cache
    /\ invocations[RefOp] = 1
    /\ invocations[RefPass] = 1
    /\ InFlightOf("t1") = {}

\* C26: a reference that stands more than once in the list of one
\* pre_resolve call is attempted at its first occurrence only: whenever the
\* call invokes a provider, no earlier position of its list holds the same
\* reference.  A reference fails at most once in a call, so the aggregated
\* error counts it once and lists its message once.
C26_RepeatedReferenceOnce ==
    \A t \in Threads :
        /\ pc[t] \in {"resolve", "await"} =>
                \A k \in 1..(idx[t] - 1) : secrets[t][k] # secrets[t][idx[t]]
        /\ \A r \in SecretRefs : Occurrences(failLog[t], r) <= 1
        /\ Len(errors[t]) = Len(failLog[t])
        /\ PreResolveDone(t) /\ ~ret[t].ok =>
                /\ ret[t].err[1][2] = Cardinality(Range(failLog[t]))
                /\ Len(SplitOn(ret[t].err[1][3], "; ", <<>>)) = Cardinality(Range(failLog[t]))

\* A call over a list that holds one failing reference twice has returned:
\* the provider ran once, and the error counts one secret.
C26_TwiceInListFailedOnce ==
    /\ PreResolveDone("t1")
    /\ pc["t2"] = "idle"
    /\ secrets["t1"] = <<RefOp, RefOp>>
    /\ invocations[RefOp] = 1
    /\ failLog["t1"] = <<RefOp>>
    /\ ret["t1"].err[1][2] = 1
    /\ SplitOn(ret["t1"].err[1][3], "; ", <<>>) = <<ResolveContext(RefOp)>>

\* The byte index n lies past the end of the line.
OutOfBounds(line, n) == n > ByteLen(line)

\* C27 as stated: format_markdown_table never indexes out of bounds.  For
\* every input of at least 2 lines, blank lines and lines shorter than the
\* common indent included, the indent length computed from the non-blank
\* lines is no more than the length of the first line, which is sliced up
\* to it, nor than the length of any line, each of which is sliced from it;
\* and the call does not panic.
C27_SlicesWithinLines ==
    FormatReturned =>
        LET lines == Lines(call.input)
        IN  Len(lines) >= 2 =>
                /\ \A i \in DOMAIN lines : ~OutOfBounds(lines[i], IndentLen(lines))
                /\ ~result.panic

\* format_markdown_table was called on an empty line followed by an
\* indented one, and panicked: the indent of the second line is longer than
\* the first line, which is sliced with it.
C27_PanicOnEmptyFirstLine ==
    /\ FormatReturned
    /\ call.input = <<"\n", " ", "-">>
    /\ IndentLen(Lines(call.input)) = 1
    /\ OutOfBounds(Lines(call.input)[1], 1)
    /\ result.panic

====
